---- MODULE Spec2Model ----
(***************************************************************************)
(* Lead QA rule engine (rules_engine.py) and analyser (analyser.py).       *)
(*                                                                         *)
(* Python str values are sequences of Unicode code points, so that strip,  *)
(* replace, the regular expressions and sorted() are computed as Python    *)
(* computes them.  Values that may be None, a str, a number or a list are  *)
(* tagged records (None, PyStr, PyNum, nan, PyList).                       *)
(***************************************************************************)
EXTENDS Integers, Sequences, FiniteSets, TLC

VARIABLES
    fileExists,      \* CONDITION_FILE.exists()
    text,            \* content of conditions.txt
    pc,              \* position of the program
    lines,           \* text.splitlines() inside _basic_parse_conditions
    ln,              \* index of the line the for loop of the parser is at
    blocks,          \* parser local: status -> [allowed_followups, raw]
    current_status,  \* parser local: None or PyStr(status)
    RULES,           \* module global RULES
    BILL_RULES,      \* module global BILL_RULES
    loaded,          \* RULES and BILL_RULES as they were right after load_rules
    row,             \* argument of the last direct validate_row call
    ret,             \* its outcome: [exc, issues]
    df,              \* input of analyse_df: sequence of rows
    run,             \* number of the analyse_df call on df (1 or 2)
    idx,             \* iterrows position inside analyse_df
    issues_list,     \* analyse_df local
    calls,           \* row positions validate_row has been applied to, in order
    exc,             \* exception that ended the current call, or "none"
    out,             \* value returned by the current analyse_df call
    first            \* outcome of the first analyse_df call on df

vars == <<fileExists, text, pc, lines, ln, blocks, current_status, RULES,
          BILL_RULES, loaded, row, ret, df, run, idx, issues_list, calls,
          exc, out, first>>

parserVars == <<lines, ln, blocks, current_status>>
analyserVars == <<df, run, idx, issues_list, calls, exc, out, first>>

----------------------------------------------------------------------------
(* Bounds *)

MaxLines == 3   \* lines of a generated rule file
MaxRows == 2    \* rows of an input data frame

----------------------------------------------------------------------------
(* Python values *)

None == [type |-> "NoneType"]
PyStr(s) == [type |-> "str", val |-> s]
PyList(l) == [type |-> "list", val |-> l]
\* a number n/2: an int when x2 is even, a float ending in .5 otherwise
PyNum(h) == [type |-> "number", x2 |-> h]
nan == [type |-> "float", val |-> "nan"]

IsNum(v) == v.type = "number"

MinOf(S) == CHOOSE x \in S : \A y \in S : x <= y
MaxOf(S) == CHOOSE x \in S : \A y \in S : y <= x

\* str.isspace()
WS == {9, 10, 11, 12, 13, 28, 29, 30, 31, 32, 133, 160}
Digits == 48..57

\* str.strip()
Strip(s) ==
    LET keep == {i \in 1..Len(s) : s[i] \notin WS}
    IN IF keep = {} THEN <<>> ELSE SubSeq(s, MinOf(keep), MaxOf(keep))

\* str.lower(), ASCII letters
LowerChar(c) == IF c \in 65..90 THEN c + 32 ELSE c
Lower(s) == [i \in 1..Len(s) |-> LowerChar(s[i])]

\* sub in s
Contains(s, sub) ==
    \E i \in 1..(Len(s) - Len(sub) + 1) : SubSeq(s, i, i + Len(sub) - 1) = sub

\* s.replace(sub, ""), sub non-empty
RECURSIVE Remove(_, _)
Remove(s, sub) ==
    LET at == {i \in 1..(Len(s) - Len(sub) + 1) : SubSeq(s, i, i + Len(sub) - 1) = sub}
    IN IF at = {} THEN s
       ELSE LET i == MinOf(at)
            IN SubSeq(s, 1, i - 1) \o Remove(SubSeq(s, i + Len(sub), Len(s)), sub)

\* decimal digits of a natural number
RECURSIVE NatDigits(_)
NatDigits(n) == IF n < 10 THEN <<48 + n>> ELSE NatDigits(n \div 10) \o <<48 + (n % 10)>>

\* str(v) and the {v} of an f-string
PyToStr(v) ==
    CASE v.type = "NoneType" -> <<78,111,110,101>>                 \* "None"
      [] v.type = "str" -> v.val
      [] v.type = "float" -> <<110,97,110>>                        \* "nan"
      [] v.type = "number" ->
            IF v.x2 % 2 = 0 THEN NatDigits(v.x2 \div 2)
            ELSE NatDigits(v.x2 \div 2) \o <<46, 53>>                \* ".5"

\* truth value of None or a str
Truthy(v) == v.type = "str" /\ v.val # <<>>

\* s < t for two str: code point by code point, a proper prefix first
StrLess(s, t) ==
    \E i \in 1..(Len(t)) :
        /\ \A j \in 1..(i - 1) : j <= Len(s) /\ s[j] = t[j]
        /\ \/ i = Len(s) + 1
           \/ i <= Len(s) /\ s[i] < t[i]

\* sorted(S) for a set of str
RECURSIVE SortedSeq(_)
SortedSeq(S) ==
    IF S = {} THEN <<>>
    ELSE LET m == CHOOSE x \in S : \A y \in S \ {x} : StrLess(x, y)
         IN <<m>> \o SortedSeq(S \ {m})

Range(f) == {f[i] : i \in DOMAIN f}

----------------------------------------------------------------------------
(* _basic_parse_conditions *)

LineBreaks == {10, 11, 12, 13, 28, 29, 30, 133, 8232, 8233}

\* str.splitlines()
RECURSIVE SplitLines(_)
SplitLines(t) ==
    LET brk == {i \in 1..Len(t) : t[i] \in LineBreaks}
    IN IF t = <<>> THEN <<>>
       ELSE IF brk = {} THEN <<t>>
       ELSE LET i == MinOf(brk)
                j == IF t[i] = 13 /\ i < Len(t) /\ t[i + 1] = 10 THEN i + 1 ELSE i
            IN <<SubSeq(t, 1, i - 1)>> \o SplitLines(SubSeq(t, j + 1, Len(t)))

\* number of leading characters of s that are in set C
LeadingIn(s, C) ==
    LET stop == {i \in 1..Len(s) : s[i] \notin C}
    IN IF stop = {} THEN Len(s) ELSE MinOf(stop) - 1

\* re.match(r"^\d+\.\s+", line)
NumberedPrefix(line) ==
    LET d == LeadingIn(line, Digits)
    IN /\ d >= 1
       /\ Len(line) >= d + 2
       /\ line[d + 1] = 46
       /\ line[d + 2] \in WS

\* re.match(r"^\d+\.\s+(.*)$", line): the line has no line break, so (.*)$
\* matches whatever follows the white space
HeaderMatch(line) == NumberedPrefix(line)

\* m.group(1).strip()
HeaderText(line) ==
    LET d == LeadingIn(line, Digits)
        rest == SubSeq(line, d + 2, Len(line))
        w == LeadingIn(rest, WS)
    IN Strip(SubSeq(rest, w + 1, Len(rest)))

\* any(keyword in line.lower() for keyword in ["status options", "next actions"])
SectionKeywords ==
    { <<115,116,97,116,117,115,32,111,112,116,105,111,110,115>>,
      <<110,101,120,116,32,97,99,116,105,111,110,115>> }
IsSectionLine(line) == \E k \in SectionKeywords : Contains(Lower(line), k)

\* re.search(r"response|callback|scheduled|engagement|feedback|waiting", line, re.I)
FollowupWords ==
    { <<114,101,115,112,111,110,115,101>>, <<99,97,108,108,98,97,99,107>>,
      <<115,99,104,101,100,117,108,101,100>>, <<101,110,103,97,103,101,109,101,110,116>>,
      <<102,101,101,100,98,97,99,107>>, <<119,97,105,116,105,110,103>> }
LooksLikeFollowup(line) == \E k \in FollowupWords : Contains(Lower(line), k)

\* re.sub(r"^[•\-*\s\d.🔥⏳✅]+", "", line).strip()
BulletChars == {8226, 45, 42, 46, 128293, 9203, 9989} \cup WS \cup Digits
StripBullets(line) ==
    Strip(SubSeq(line, LeadingIn(line, BulletChars) + 1, Len(line)))

\* re.split(r"\s*[-–]\s*", option)[0].strip(): the text before the leftmost
\* match of optional white space followed by a dash
Dashes == {45, 8211}
BeforeDash(option) ==
    LET starts == {i \in 1..Len(option) :
                     \E j \in i..Len(option) :
                        /\ option[j] \in Dashes
                        /\ \A k \in i..(j - 1) : option[k] \in WS}
    IN IF starts = {} THEN Strip(option)
       ELSE Strip(SubSeq(option, 1, MinOf(starts) - 1))

Option(line) == BeforeDash(StripBullets(line))

\* blocks[current_status] = {"allowed_followups": [], "raw": ""}
NewBlockMut(b, status) ==
    IF status \in DOMAIN b THEN b
    ELSE [k \in DOMAIN b \cup {status} |->
            IF k = status THEN [allowed_followups |-> <<>>, raw |-> <<>>] ELSE b[k]]
NewBlock(b, status) ==
    [k \in DOMAIN b \cup {status} |->
        IF k = status THEN [allowed_followups |-> <<>>, raw |-> <<>>] ELSE b[k]]

\* v["allowed_followups"] = sorted(set(v["allowed_followups"])) for every block
Deduplicate(b) ==
    [k \in DOMAIN b |->
        [b[k] EXCEPT !.allowed_followups = SortedSeq(Range(b[k].allowed_followups))]]

\* one iteration of the for loop over text.splitlines()
ScanStep(b, cur, rawline) ==
    LET line == Strip(rawline)
    IN IF line = <<>> THEN [blocks |-> b, current_status |-> cur]
       ELSE IF HeaderMatch(line)
       THEN [blocks |-> NewBlock(b, HeaderText(line)),
             current_status |-> PyStr(HeaderText(line))]
       ELSE IF ~Truthy(cur) THEN [blocks |-> b, current_status |-> cur]
       ELSE LET s == cur.val
                b1 == [b EXCEPT ![s].raw = @ \o line \o <<10>>]
            IN IF IsSectionLine(line)
               THEN [blocks |-> b1, current_status |-> cur]
               ELSE IF ~NumberedPrefix(line) /\ LooksLikeFollowup(line)
               THEN [blocks |-> [b1 EXCEPT ![s].allowed_followups = Append(@, Option(line))],
                     current_status |-> cur]
               ELSE [blocks |-> b1, current_status |-> cur]

Empty == [k \in {} |-> <<>>]

----------------------------------------------------------------------------
(* Validation logic *)

ColdLead == <<67,111,108,100,32,76,101,97,100>>   \* "Cold Lead"
WarmLead == <<87,97,114,109,32,76,101,97,100>>    \* "Warm Lead"
HotLead == <<72,111,116,32,76,101,97,100>>        \* "Hot Lead"

\* BILL_RULES = {"Cold Lead": (None, 999), "Warm Lead": (1000, 1999), "Hot Lead": (2000, None)}
BillRulesWide ==
    [k \in {ColdLead, WarmLead, HotLead} |->
        CASE k = ColdLead -> <<None, PyNum(2 * 1000)>>
          [] k = WarmLead -> <<PyNum(2 * 1000), PyNum(2 * 2000)>>
          [] k = HotLead -> <<PyNum(2 * 2000), None>>]
BillRulesTable ==
    [k \in {ColdLead, WarmLead, HotLead} |->
        CASE k = ColdLead -> <<None, PyNum(2 * 999)>>
          [] k = WarmLead -> <<PyNum(2 * 1000), PyNum(2 * 1999)>>
          [] k = HotLead -> <<PyNum(2 * 2000), None>>]

\* row.get(key, default)
Get(r, key, default) == IF key \in DOMAIN r THEN r[key] ELSE default

\* a < b, a > b: numbers compare by value, every comparison with nan is False,
\* a str against a number raises TypeError
Comparable(a, b) == a.type # "str" /\ b.type # "str"
Less(a, b) == IsNum(a) /\ IsNum(b) /\ a.x2 < b.x2
Greater(a, b) == IsNum(a) /\ IsNum(b) /\ a.x2 > b.x2

\* lead_status.replace("🔥🔥", "").replace("✅", "").strip()
StripMarkers(lead_status) ==
    Strip(Remove(Remove(lead_status, <<128293, 128293>>), <<9989>>))

BelowText == <<32,105,115,32,98,101,108,111,119,32,109,105,110,105,109,117,109,32>>  \* " is below minimum "
ExceedsText == <<32,101,120,99,101,101,100,115,32,109,97,120,32>>                     \* " exceeds max "
ForText == <<32,102,111,114,32>>                                                      \* " for "
BillText == <<72,105,103,104,101,115,116,95,66,105,108,108,32>>                       \* "Highest_Bill "

\* _check_bill_status(lead_status, bill): [exc, ok, reason]
CheckBillStatus(bill_rules, lead_status, bill) ==
    IF bill = None \/ lead_status \notin DOMAIN bill_rules
    THEN [exc |-> "none", ok |-> TRUE, reason |-> None]
    ELSE LET low == bill_rules[lead_status][1]
             high == bill_rules[lead_status][2]
         IN IF low # None /\ ~Comparable(bill, low)
            THEN [exc |-> "TypeError", ok |-> FALSE, reason |-> None]
            ELSE IF low # None /\ Less(bill, low)
            THEN [exc |-> "none", ok |-> FALSE,
                  reason |-> PyStr(BillText \o PyToStr(bill) \o BelowText
                                   \o PyToStr(low) \o ForText \o lead_status)]
            ELSE IF high # None /\ ~Comparable(bill, high)
            THEN [exc |-> "TypeError", ok |-> FALSE, reason |-> None]
            ELSE IF high # None /\ Greater(bill, high)
            THEN [exc |-> "none", ok |-> FALSE,
                  reason |-> PyStr(BillText \o PyToStr(bill) \o ExceedsText
                                   \o PyToStr(high) \o ForText \o lead_status)]
            ELSE [exc |-> "none", ok |-> TRUE, reason |-> None]

\* _suggest_lead_status_for_bill(bill)
SuggestLeadStatusForBill(bill) ==
    IF bill = None THEN None
    ELSE IF Less(bill, PyNum(2 * 1000)) THEN PyStr(ColdLead)
    ELSE IF Less(bill, PyNum(2 * 2000)) THEN PyStr(WarmLead)
    ELSE PyStr(HotLead)

\* RULES.get(key, {}).get("allowed_followups", []): the list found and the
\* table as the lookup leaves it
LookupSetDefault(rules, key) ==
    [allowed |-> IF key \in DOMAIN rules THEN rules[key].allowed_followups ELSE <<>>,
     table |-> IF key \in DOMAIN rules THEN rules
               ELSE [k \in DOMAIN rules \cup {key} |->
                       IF k = key THEN [allowed_followups |-> <<>>, raw |-> <<>>]
                       ELSE rules[k]]]
LookupAllowed(rules, key) ==
    [allowed |-> IF key \in DOMAIN rules THEN rules[key].allowed_followups ELSE <<>>,
     table |-> rules]

NoneText == <<78,111,110,101>>   \* "None"

\* allowed and (follow_status or "None") not in allowed
FollowupRejectedNoPlaceholder(allowed, follow_status) ==
    /\ allowed # <<>>
    /\ Truthy(follow_status)
    /\ follow_status.val \notin Range(allowed)
FollowupRejectedStrict(allowed, follow_status) ==
    (IF Truthy(follow_status) THEN follow_status.val ELSE NoneText) \notin Range(allowed)
FollowupRejected(allowed, follow_status) ==
    /\ allowed # <<>>
    /\ (IF Truthy(follow_status) THEN follow_status.val ELSE NoneText) \notin Range(allowed)

NotAllowedText == <<39,32,110,111,116,32,97,108,108,111,119,101,100,32,102,111,114,32>>  \* "' not allowed for "

\* validate_row(row): [exc, issues, rules], rules being RULES after the call
validate_row(rules, bill_rules, r) ==
    LET lead_status == Strip(PyToStr(Get(r, "Lead Status", PyStr(<<>>))))
        fs == Strip(PyToStr(Get(r, "Followup Status", PyStr(<<>>))))
        follow_status == IF fs # <<>> THEN PyStr(fs) ELSE None
        bill == Get(r, "Highest_Bill", None)
        chk == CheckBillStatus(bill_rules, StripMarkers(lead_status), bill)
        issue1 == IF chk.ok THEN <<>>
                  ELSE << [column |-> "Lead Status",
                           wrong |-> PyStr(lead_status),
                           reason |-> chk.reason,
                           suggestion |-> SuggestLeadStatusForBill(bill)] >>
        look == LookupAllowed(rules, StripMarkers(lead_status))
        issue2 == IF FollowupRejected(look.allowed, follow_status)
                  THEN << [column |-> "Followup Status",
                           wrong |-> follow_status,
                           reason |-> PyStr(<<39>> \o PyToStr(follow_status)
                                            \o NotAllowedText \o lead_status),
                           suggestion |-> PyList(look.allowed)] >>
                  ELSE <<>>
    IN IF chk.exc # "none"
       THEN [exc |-> chk.exc, issues |-> <<>>, rules |-> rules]
       ELSE [exc |-> "none", issues |-> issue1 \o issue2, rules |-> look.table]

----------------------------------------------------------------------------
(* Inputs *)

\* lines a generated conditions.txt is made of
LineCold == <<50,46,32,67,111,108,100,32,76,101,97,100>>   \* "2. Cold Lead"
LineColdAgain == <<55,46,32,32,67,111,108,100,32,76,101,97,100,32>>   \* "7.  Cold Lead "
LineHot == <<49,46,32,72,111,116,32,76,101,97,100>>   \* "1. Hot Lead"
LineSection == <<83,116,97,116,117,115,32,79,112,116,105,111,110,115,58>>   \* "Status Options:"
LineNoResponse == <<45,32,78,111,32,82,101,115,112,111,110,115,101>>   \* "- No Response"
LineCallback == <<45,32,67,97,108,108,98,97,99,107,32,83,99,104,101,100,117,108,101,100,32,45,32,119,105,116,104,105,110,32,50,32,100,97,121,115>>   \* "- Callback Scheduled - within 2 days"
LineWaiting == <<8226,32,87,97,105,116,105,110,103>>   \* "• Waiting"
LineBlank == <<>>   \* ""
LineSet == {LineCold, LineColdAgain, LineHot, LineSection, LineNoResponse, LineCallback, LineWaiting, LineBlank}

\* "\n".join(ls)
RECURSIVE JoinLines(_)
JoinLines(ls) ==
    IF ls = <<>> THEN <<>>
    ELSE IF Len(ls) = 1 THEN ls[1]
    ELSE ls[1] \o <<10>> \o JoinLines(Tail(ls))

SeqsUpTo(S, n) == UNION {[1..k -> S] : k \in 0..n}

GeneratedTexts == {JoinLines(ls) : ls \in SeqsUpTo(LineSet, MaxLines)}

\* three fixed rule files: sections with follow-ups; an empty file; a section
\* whose only option is the text "None" and a section without options
FileFollowups ==
    <<50,46,32,67,111,108,100,32,76,101,97,100,10,83,116,97,116,117,115,32,79,112,116,105,111,110,115,58,10,45,32,78,111,32,82,101,115,112,111,110,115,101,10,45,32,67,97,108,108,98,97,99,107,32,83,99,104,101,100,117,108,101,100,32,45,32,119,105,116,104,105,110,32,50,32,100,97,121,115,10,49,46,32,72,111,116,32,76,101,97,100,10,8226,32,87,97,105,116,105,110,103,10>>
FileEmpty ==
    <<>>
FileNone ==
    <<50,46,32,67,111,108,100,32,76,101,97,100,32,10,78,111,110,101,32,45,32,97,119,97,105,116,105,110,103,32,114,101,115,112,111,110,115,101,10,52,46,32,87,97,114,109,32,76,101,97,100,10,78,111,116,101,115,10>>
RuleFiles == {FileFollowups, FileEmpty, FileNone}

\* field values of the records
NoResponse == <<78,111,32,82,101,115,112,111,110,115,101>>   \* "No Response"
Interested == <<73,110,116,101,114,101,115,116,101,100>>   \* "Interested"
CallbackScheduled == <<67,97,108,108,98,97,99,107,32,83,99,104,101,100,117,108,101,100>>   \* "Callback Scheduled"
HotLeadFire == <<72,111,116,32,76,101,97,100,128293,128293>>   \* "Hot Lead🔥🔥"
ColdLeadTick == <<67,111,108,100,32,76,101,97,100,9989,32>>   \* "Cold Lead✅ "
Junk == <<74,117,110,107>>   \* "Junk"
Blanks == <<32,32,32>>   \* "   "
Abc == <<97,98,99>>   \* "abc"

\* a record: the identifying columns are always there, the others are left
\* out of the mapping when Missing
Missing == [type |-> "missing"]
Fields(ls, fs, bill) ==
    [k \in {"Lead Status", "Followup Status", "Highest_Bill"} |->
        CASE k = "Lead Status" -> ls
          [] k = "Followup Status" -> fs
          [] k = "Highest_Bill" -> bill]
Row(emp, date, ls, fs, bill) ==
    LET opt == Fields(ls, fs, bill)
        keys == {k \in DOMAIN opt : opt[k] # Missing}
    IN [k \in {"Created Date", "Lead Name", "Mobile Number", "Assigned To"} \cup keys |->
          CASE k = "Created Date" -> date
            [] k = "Lead Name" -> "L1"
            [] k = "Mobile Number" -> "9000000001"
            [] k = "Assigned To" -> emp
            [] OTHER -> opt[k]]

MsPerDay == 86400000
\* Created Date values, epoch milliseconds: two instants on different days
Dates == {100000000, 200000000}
DayOne == MinOf(Dates)

LeadStatuses ==
    {Missing, nan, PyStr(ColdLead), PyStr(WarmLead), PyStr(HotLeadFire),
     PyStr(ColdLeadTick), PyStr(Junk)}
Followups ==
    {Missing, None, nan, PyStr(<<>>), PyStr(Blanks), PyStr(NoResponse), PyStr(Interested)}
Bills ==
    {Missing, None, nan, PyStr(Abc),
     PyNum(2 * 500), PyNum(2 * 999), PyNum(2 * 999 + 1), PyNum(2 * 1000),
     PyNum(2 * 1500), PyNum(2 * 1999), PyNum(2 * 1999 + 1), PyNum(2 * 2000),
     PyNum(2 * 2500)}

\* records validate_row is called on directly
ValidateRows ==
    {Row("Asha", DayOne, ls, fs, bill) : ls \in LeadStatuses, fs \in Followups, bill \in Bills}

\* records of the data frames given to analyse_df: no issue, a bill issue,
\* both issues, a follow-up issue, a bill that is text
Cases ==
    { Fields(PyStr(ColdLead), PyStr(NoResponse), PyNum(2 * 500)),
      Fields(PyStr(ColdLead), PyStr(NoResponse), PyNum(2 * 1500)),
      Fields(PyStr(HotLeadFire), PyStr(Interested), PyNum(2 * 500)),
      Fields(PyStr(ColdLead), Missing, PyNum(2 * 500)),
      Fields(PyStr(ColdLead), PyStr(NoResponse), PyStr(Abc)) }
Employees == {"Asha", "Ravi"}
AnalyseRows ==
    {Row(emp, date, c["Lead Status"], c["Followup Status"], c["Highest_Bill"]) :
        emp \in Employees, date \in Dates, c \in Cases}
DataFrames == SeqsUpTo(AnalyseRows, MaxRows)

----------------------------------------------------------------------------
(* analyse_df *)

\* issues_list: list[dict] = []
KeepIssuesList(prev) == prev
NewIssuesList(prev) == <<>>

\* the dict appended to issues_list for one issue of one row
IssueEntry(r, issue) ==
    [k \in {"Created Date", "Lead Name", "Mobile Number", "Assigned To",
            "Issue Column", "Wrong Value", "Suggestion", "Reason"} |->
        CASE k = "Issue Column" -> issue.column
          [] k = "Wrong Value" -> issue.wrong
          [] k = "Suggestion" -> issue.suggestion
          [] k = "Reason" -> issue.reason
          [] OTHER -> Get(r, k, None)]

\* for issue in issues: issues_list.append({...})
EntriesReversed(r, issues) ==
    [i \in 1..Len(issues) |-> IssueEntry(r, issues[Len(issues) + 1 - i])]
Entries(r, issues) == [i \in 1..Len(issues) |-> IssueEntry(r, issues[i])]

\* pd.to_datetime(ms, unit="ms").dt.date, as a day number
DayOf(ms) == ms \div MsPerDay

\* faulty_df["Date"] = ...
WithDate(list) ==
    [i \in 1..Len(list) |->
        [k \in DOMAIN list[i] \cup {"Date"} |->
            IF k = "Date" THEN DayOf(list[i]["Created Date"]) ELSE list[i][k]]]

\* frame.groupby(col).size(): key -> number of rows
GroupSize(frame, col) ==
    [key \in {frame[i][col] : i \in 1..Len(frame)} |->
        Cardinality({i \in 1..Len(frame) : frame[i][col] = key})]

\* total_by_emp.merge(by_employee, on="Assigned To", how="left").fillna(0),
\* then merged["Correct"] = merged["Total"] - merged["Fault Count"]
Merged(total_by_emp, by_employee) ==
    [e \in DOMAIN total_by_emp |->
        LET faults == IF e \in DOMAIN by_employee THEN by_employee[e] ELSE 0
        IN [k \in {"Total", "Fault Count", "Correct"} |->
              CASE k = "Total" -> total_by_emp[e]
                [] k = "Fault Count" -> faults
                [] k = "Correct" -> total_by_emp[e] - faults]]

----------------------------------------------------------------------------
(* The program *)

NoReturn == [exc |-> "none", issues |-> <<>>]

InitRest ==
    /\ fileExists \in BOOLEAN
    /\ pc = "start"
    /\ lines = <<>>
    /\ ln = 0
    /\ blocks = Empty
    /\ current_status = None
    /\ RULES = Empty
    /\ BILL_RULES = Empty
    /\ loaded = [RULES |-> Empty, BILL_RULES |-> Empty]
    /\ row = Empty
    /\ ret = NoReturn
    /\ df = <<>>
    /\ run = 0
    /\ idx = 0
    /\ issues_list = <<>>
    /\ calls = <<>>
    /\ exc = "none"
    /\ out = None
    /\ first = None

\* the module is imported with one of the fixed rule files in place
Init == text \in RuleFiles /\ InitRest

\* the module is imported with a generated rule file in place
InitParse == text \in GeneratedTexts /\ InitRest

\* load_rules: the rule file is absent
LoadRulesMissing ==
    /\ pc = "start"
    /\ ~fileExists
    /\ pc' = "fatal"
    /\ exc' = "FileNotFoundError"
    /\ UNCHANGED <<fileExists, text, lines, ln, blocks, current_status, RULES,
                   BILL_RULES, loaded, row, ret, df, run, idx, issues_list,
                   calls, out, first>>

\* load_rules reads the file and enters _basic_parse_conditions
LoadRulesRead ==
    /\ pc = "start"
    /\ fileExists
    /\ lines' = SplitLines(text)
    /\ ln' = 1
    /\ blocks' = Empty
    /\ current_status' = None
    /\ pc' = "scan"
    /\ UNCHANGED <<fileExists, text, RULES, BILL_RULES, loaded, row, ret>>
    /\ UNCHANGED analyserVars

\* one iteration of the for loop of _basic_parse_conditions
ScanLine ==
    /\ pc = "scan"
    /\ ln <= Len(lines)
    /\ LET s == ScanStep(blocks, current_status, lines[ln])
       IN /\ blocks' = s.blocks
          /\ current_status' = s.current_status
    /\ ln' = ln + 1
    /\ UNCHANGED <<fileExists, text, pc, lines, RULES, BILL_RULES, loaded, row, ret>>
    /\ UNCHANGED analyserVars

\* the loop is over: de-duplicate, return; load_rules returns the mapping,
\* the module binds RULES and then BILL_RULES
FinishLoad ==
    /\ pc = "scan"
    /\ ln > Len(lines)
    /\ blocks' = Deduplicate(blocks)
    /\ RULES' = blocks'
    /\ BILL_RULES' = BillRulesTable
    /\ loaded' = [RULES |-> RULES', BILL_RULES |-> BILL_RULES']
    /\ pc' = "ready"
    /\ UNCHANGED <<fileExists, text, lines, ln, current_status, row, ret>>
    /\ UNCHANGED analyserVars

\* a direct call validate_row(r), as the command line of rules_engine.py makes
ValidateRowCall ==
    /\ pc = "ready"
    /\ \E r \in ValidateRows :
          LET v == validate_row(RULES, BILL_RULES, r)
          IN /\ row' = r
             /\ ret' = [exc |-> v.exc, issues |-> v.issues]
             /\ RULES' = v.rules
    /\ pc' = "validated"
    /\ UNCHANGED <<fileExists, text, BILL_RULES, loaded>>
    /\ UNCHANGED parserVars
    /\ UNCHANGED analyserVars

\* analyse_df(d) is called: issues_list = [] and the loop starts
AnalyseDf ==
    /\ pc = "ready"
    /\ \E d \in DataFrames : df' = d
    /\ run' = 1
    /\ idx' = 1
    /\ issues_list' = NewIssuesList(issues_list)
    /\ calls' = <<>>
    /\ exc' = "none"
    /\ out' = None
    /\ pc' = "rows"
    /\ UNCHANGED <<fileExists, text, RULES, BILL_RULES, loaded, row, ret, first>>
    /\ UNCHANGED parserVars

\* one iteration of for idx, row in df.iterrows()
IterRow ==
    /\ pc = "rows"
    /\ idx <= Len(df)
    /\ LET v == validate_row(RULES, BILL_RULES, df[idx])
       IN /\ calls' = Append(calls, idx)
          /\ RULES' = v.rules
          /\ IF v.exc # "none"
             THEN /\ exc' = v.exc
                  /\ pc' = "raised"
                  /\ UNCHANGED <<idx, issues_list>>
             ELSE /\ issues_list' = issues_list \o Entries(df[idx], v.issues)
                  /\ idx' = idx + 1
                  /\ UNCHANGED <<exc, pc>>
    /\ UNCHANGED <<fileExists, text, BILL_RULES, loaded, row, ret, df, run, out, first>>
    /\ UNCHANGED parserVars

\* the loop is over: build faulty_df, the aggregations and the accuracy table
Aggregate ==
    /\ pc = "rows"
    /\ idx > Len(df)
    /\ LET empty == issues_list = <<>>
           faulty_df == IF empty THEN <<>> ELSE WithDate(issues_list)
           by_date == IF empty THEN Empty ELSE GroupSize(faulty_df, "Date")
           by_employee == IF empty THEN Empty ELSE GroupSize(faulty_df, "Assigned To")
           total_by_emp == GroupSize(df, "Assigned To")
       IN IF empty
          THEN \* by_employee is a frame without columns: merge(on="Assigned To") raises
               /\ exc' = "KeyError"
               /\ pc' = "raised"
               /\ out' = out
          ELSE /\ out' = [faulty_df |-> faulty_df, by_date |-> by_date,
                          merged |-> Merged(total_by_emp, by_employee)]
               /\ pc' = "returned"
               /\ exc' = exc
    /\ UNCHANGED <<fileExists, text, RULES, BILL_RULES, loaded, row, ret, df, run,
                   idx, issues_list, calls, first>>
    /\ UNCHANGED parserVars

\* analyse_df is called a second time on the same data frame
AnalyseAgain ==
    /\ pc \in {"returned", "raised"}
    /\ run = 1
    /\ first' = [exc |-> exc, out |-> out, issues_list |-> issues_list]
    /\ run' = 2
    /\ idx' = 1
    /\ issues_list' = NewIssuesList(issues_list)
    /\ calls' = <<>>
    /\ exc' = "none"
    /\ out' = None
    /\ pc' = "rows"
    /\ UNCHANGED <<fileExists, text, RULES, BILL_RULES, loaded, row, ret, df>>
    /\ UNCHANGED parserVars

Next ==
    \/ LoadRulesMissing
    \/ LoadRulesRead
    \/ ScanLine
    \/ FinishLoad
    \/ AnalyseDf
    \/ IterRow
    \/ Aggregate
    \/ AnalyseAgain

NextValidate ==
    \/ LoadRulesMissing
    \/ LoadRulesRead
    \/ ScanLine
    \/ FinishLoad
    \/ ValidateRowCall

NextParse ==
    \/ LoadRulesMissing
    \/ LoadRulesRead
    \/ ScanLine
    \/ FinishLoad

Spec == Init /\ [][Next]_vars
SpecValidate == Init /\ [][NextValidate]_vars
SpecParse == InitParse /\ [][NextParse]_vars

----------------------------------------------------------------------------
(* Vocabulary of the properties *)

\* the record's Lead Status with the emoji markers stripped
StatusOf(r) == StripMarkers(Strip(PyToStr(Get(r, "Lead Status", PyStr(<<>>)))))

\* Followup Status is absent: missing key, empty or white space only
AbsentFollowup(r) ==
    \/ "Followup Status" \notin DOMAIN r
    \/ /\ r["Followup Status"].type = "str"
       /\ Strip(r["Followup Status"].val) = <<>>

\* the follow-up value of the record, the placeholder "None" when absent
FollowupOf(r) ==
    IF AbsentFollowup(r) THEN NoneText ELSE Strip(PyToStr(r["Followup Status"]))

\* the allowed follow-ups the rule table has for the record's status
AllowedOf(r) ==
    IF StatusOf(r) \in DOMAIN loaded.RULES
    THEN loaded.RULES[StatusOf(r)].allowed_followups
    ELSE <<>>

\* Highest_Bill is a number
HasBill(r) == "Highest_Bill" \in DOMAIN r /\ IsNum(r["Highest_Bill"])

\* the bill lies outside the inclusive range of the status
OutsideRange(status, bill) ==
    CASE status = ColdLead -> ~(bill.x2 <= 2 * 999)
      [] status = WarmLead -> ~(2 * 1000 <= bill.x2 /\ bill.x2 <= 2 * 1999)
      [] status = HotLead -> ~(bill.x2 >= 2 * 2000)

\* the threshold function of the bill
Threshold(bill) ==
    IF bill.x2 < 2 * 1000 THEN ColdLead
    ELSE IF bill.x2 < 2 * 2000 THEN WarmLead
    ELSE HotLead

IssuesOn(issues, column) == SelectSeq(issues, LAMBDA i : i.column = column)

\* the issues validate_row gives for the record at position i of df, under the
\* tables as loaded
IssuesOfRow(i) == validate_row(loaded.RULES, loaded.BILL_RULES, df[i])
Faulty(i) == IssuesOfRow(i).exc = "none" /\ IssuesOfRow(i).issues # <<>>
RowsOf(e) == {i \in 1..Len(df) : df[i]["Assigned To"] = e}

RECURSIVE IssueCount(_)
IssueCount(n) == IF n = 0 THEN 0 ELSE IssueCount(n - 1) + Len(IssuesOfRow(n).issues)

Returned == pc = "validated" /\ ret.exc = "none"

----------------------------------------------------------------------------
(* Properties *)

BillUnusable(r) ==
    \/ "Highest_Bill" \notin DOMAIN r
    \/ ~IsNum(r["Highest_Bill"])
    \/ StatusOf(r) \notin DOMAIN loaded.BILL_RULES

\* C3: validate_row never raises on a record whose Highest_Bill is missing or
\* not a usable number, or whose stripped Lead Status is not in the bill-range
\* table: it returns a list of issues without a 'Lead Status' issue.
C3_NeverRaises ==
    (pc = "validated" /\ BillUnusable(row))
    => /\ ret.exc = "none"
       /\ IssuesOn(ret.issues, "Lead Status") = <<>>

C6_RulesImmutable ==
    pc \in {"ready", "rows", "returned", "raised"}
    => /\ RULES = loaded.RULES
       /\ BILL_RULES = loaded.BILL_RULES
       /\ Len(issues_list) = IssueCount(IF idx = 0 THEN 0 ELSE idx - 1)

\* two runs over two records have been made
C6_Witness ==
    /\ pc = "returned"
    /\ run = 2
    /\ Len(calls) = 2
    /\ RULES = loaded.RULES

\* C7: a second analyse_df call on the same records ends as the first did:
\* same issue list in the same order, same fault count by date, same accuracy
\* table.
C7_Idempotent ==
    (run = 2 /\ pc \in {"returned", "raised"})
    => /\ exc = first.exc
       /\ issues_list = first.issues_list
       /\ out = first.out

\* the second run returned tables with issues in them
C7_Witness ==
    /\ run = 2
    /\ pc = "returned"
    /\ Len(out.faulty_df) >= 2
    /\ out = first.out

Ascending(l) == \A i, j \in 1..Len(l) : i < j => StrLess(l[i], l[j])

\* the header line scanned last before line n, 0 when there is none
LastHeader(n) ==
    LET hs == {j \in 1..(n - 1) : HeaderMatch(Strip(lines[j]))}
    IN IF hs = {} THEN 0 ELSE MaxOf(hs)

\* C9: in _basic_parse_conditions a line '<number>. <text>' starts a block
\* keyed by <text> with an empty follow-up list, whatever was collected under
\* that text before; lines before the first header change nothing; any other
\* line changes at most the block of the most recent header, by appending
\* one option; the mapping returned has every list sorted ascending without
\* duplicates.
C9_Parser ==
    [][ /\ (pc = "scan" /\ ln <= Len(lines)) =>
              LET line == Strip(lines[ln])
                  h == LastHeader(ln)
              IN IF line # <<>> /\ HeaderMatch(line)
                 THEN /\ DOMAIN blocks' = DOMAIN blocks \cup {HeaderText(line)}
                      /\ blocks'[HeaderText(line)].allowed_followups = <<>>
                      /\ \A k \in DOMAIN blocks \ {HeaderText(line)} : blocks'[k] = blocks[k]
                 ELSE IF h = 0
                 THEN blocks' = blocks /\ blocks = Empty
                 ELSE LET s == HeaderText(Strip(lines[h]))
                      IN /\ DOMAIN blocks' = DOMAIN blocks
                         /\ \A k \in DOMAIN blocks \ {s} : blocks'[k] = blocks[k]
                         /\ \/ blocks'[s].allowed_followups = blocks[s].allowed_followups
                            \/ /\ Len(blocks'[s].allowed_followups)
                                    = Len(blocks[s].allowed_followups) + 1
                               /\ SubSeq(blocks'[s].allowed_followups, 1,
                                         Len(blocks[s].allowed_followups))
                                    = blocks[s].allowed_followups
        /\ pc' = "ready" =>
              \A k \in DOMAIN RULES' : Ascending(RULES'[k].allowed_followups)
      ]_vars

\* a header was repeated after an option had been collected under it, and the
\* mapping returned has an empty list for it
C9_Witness ==
    /\ pc = "ready"
    /\ Len(lines) = 3
    /\ HeaderMatch(Strip(lines[1]))
    /\ LooksLikeFollowup(lines[2])
    /\ HeaderMatch(Strip(lines[3]))
    /\ HeaderText(Strip(lines[1])) = HeaderText(Strip(lines[3]))
    /\ RULES[HeaderText(Strip(lines[1]))].allowed_followups = <<>>

\* C2: analyse_df returns, also when no record has an issue, an accuracy
\* table in which every employee without a faulty row has Fault Count = 0 and
\* Correct = Total.
C2_ZeroFaults ==
    (pc \in {"returned", "raised"} /\ exc # "TypeError" /\ df # <<>>)
    => /\ pc = "returned"
       /\ \A e \in {df[i]["Assigned To"] : i \in 1..Len(df)} :
             (\A i \in RowsOf(e) : ~Faulty(i))
             => /\ e \in DOMAIN out.merged
                /\ out.merged[e]["Fault Count"] = 0
                /\ out.merged[e]["Correct"] = out.merged[e]["Total"]

\* C10: in the accuracy table Fault Count is the number of the employee's
\* rows failing a check, Correct = Total - Fault Count, and so
\* Fault Count <= Total and 0 <= Correct <= Total.
C10_AccuracyBounds ==
    pc = "returned"
    => \A e \in DOMAIN out.merged :
          LET m == out.merged[e]
          IN /\ m["Fault Count"] = Cardinality({i \in RowsOf(e) : Faulty(i)})
             /\ m["Correct"] = m["Total"] - m["Fault Count"]
             /\ m["Fault Count"] <= m["Total"]
             /\ 0 <= m["Correct"] /\ m["Correct"] <= m["Total"]

====
